---- MODULE Spec2Model ----
(***************************************************************************)
(* Workflow API handlers of pkg/grpc/universalapi/api_workflow.go.         *)
(*                                                                         *)
(* Strings that the code inspects character by character (instance ids)   *)
(* are sequences of Unicode code points; strings that are only compared    *)
(* with "" or used as keys (component, workflow and event names) are TLA+  *)
(* strings.  Errors of package messages are records named after the Go     *)
(* variable, carrying the arguments given to WithFormat.                   *)
(***************************************************************************)
EXTENDS Integers, Sequences, FiniteSets, TLC

VARIABLES
    registry,     \* a.CompStore: names of the registered workflow components
    actorsReady,  \* whether a.WaitForActorsReady returns
    calls,        \* one record per gRPC invocation served by the handlers
    entry,        \* the gRPC method the transport invoked for each invocation
    vin,          \* argument of a direct validateInstanceID call
    vout          \* its result

vars == <<registry, actorsReady, calls, entry, vin, vout>>

(***************************************************************************)
(* Bounds                                                                  *)
(***************************************************************************)
NumCalls == 2   \* concurrent invocations
MaxRuns == 2    \* an instance id is at most MaxRuns runs of one character

\* const maxInstanceIDLength = 64
maxInstanceIDLength == 64

(***************************************************************************)
(* Characters and strings                                                  *)
(***************************************************************************)
\* 'a' '7' '-' '_' '#' U+00E9 (e acute) U+0663 (arabic-indic 3) U+20AC (euro)
Alphabet == {97, 55, 45, 95, 35, 233, 1635, 8364}

\* unicode.IsLetter: category L (ASCII, Latin-1, CJK unified ideographs)
IsLetter(c) ==
    \/ c \in 65..90
    \/ c \in 97..122
    \/ c \in {170, 181, 186}
    \/ (c \in 192..255 /\ c \notin {215, 247})
    \/ c \in 19968..40959

\* unicode.IsDigit: category Nd (ASCII, Arabic-Indic)
IsDigit(c) ==
    \/ c \in 48..57
    \/ c \in 1632..1641

\* number of bytes of the UTF-8 encoding of code point c
RuneLen(c) ==
    IF c < 128 THEN 1
    ELSE IF c < 2048 THEN 2
    ELSE IF c < 65536 THEN 3
    ELSE 4

\* Go's len(s): the number of BYTES of the string, the sum of RuneLen over its
\* code points (a rune of n bytes is counted once for each k in 1..n)
ByteLen(s) ==
    LET AtLeast(k) == Cardinality({i \in 1..Len(s) : RuneLen(s[i]) >= k})
    IN  AtLeast(1) + AtLeast(2) + AtLeast(3) + AtLeast(4)

Repeat(c, n) == [i \in 1..n |-> c]

RunLens == {1, 22, 33, 64, 65}

RECURSIVE RunIds(_)
RunIds(k) ==
    IF k = 0 THEN {<<>>}
    ELSE LET shorter == RunIds(k - 1)
         IN  shorter \cup
             {s \o Repeat(c, n) : s \in shorter, c \in Alphabet, n \in RunLens}

(***************************************************************************)
(* Errors                                                                  *)
(***************************************************************************)
APIError(name, id, text, limit, wrapped) ==
    [name |-> name, id |-> id, text |-> text, limit |-> limit, wrapped |-> wrapped]

nil == APIError("nil", <<>>, "", 0, <<>>)

\* An engine error is its Unwrap chain, outermost first; <<>> is nil.
ErrInstanceNotFound == <<"api.ErrInstanceNotFound">>
EngineErrors ==
    { <<>>,
      ErrInstanceNotFound,
      <<"fmt.Errorf(%w)", "api.ErrInstanceNotFound">>,
      <<"backend unavailable">> }

\* errors.Is(err, target) for a sentinel target
errorsIs(err, target) == \E i \in 1..Len(err) : <<err[i]>> = target

(***************************************************************************)
(* validateInstanceID                                                      *)
(***************************************************************************)
\* validateInstanceID applying the create-path checks whatever isCreate is
validateInstanceID_alwaysCreate(instanceID, isCreate) ==
    IF instanceID = <<>>
    THEN APIError("ErrMissingOrEmptyInstance", <<>>, "", 0, <<>>)
    ELSE IF ByteLen(instanceID) > maxInstanceIDLength
    THEN APIError("ErrInstanceIDTooLong", <<>>, "", maxInstanceIDLength, <<>>)
    ELSE IF \E i \in 1..Len(instanceID) :
                LET c == instanceID[i]
                IN  ~IsLetter(c) /\ c # 95 /\ c # 45 /\ ~IsDigit(c)
    THEN APIError("ErrInvalidInstanceID", instanceID, "", 0, <<>>)
    ELSE nil

validateInstanceID(instanceID, isCreate) ==
    IF instanceID = <<>>
    THEN APIError("ErrMissingOrEmptyInstance", <<>>, "", 0, <<>>)
    ELSE IF isCreate
    THEN IF ByteLen(instanceID) > maxInstanceIDLength
         THEN APIError("ErrInstanceIDTooLong", <<>>, "", maxInstanceIDLength, <<>>)
         ELSE IF \E i \in 1..Len(instanceID) :
                     LET c == instanceID[i]
                     IN  ~IsLetter(c) /\ c # 95 /\ c # 45 /\ ~IsDigit(c)
         THEN APIError("ErrInvalidInstanceID", instanceID, "", 0, <<>>)
         ELSE nil
    ELSE nil

(***************************************************************************)
(* Requests, responses, engine results                                     *)
(***************************************************************************)
Procs == 1..NumCalls

\* "", "wf-1", "wf#1", "a" x 65
InstanceIds == {<<>>, <<119, 102, 45, 49>>, <<119, 102, 35, 49>>, Repeat(97, 65)}
ComponentNames == {"", "redis", "nope"}

Request(id, comp, wfName, evName) ==
    [InstanceId |-> id, WorkflowComponent |-> comp,
     WorkflowName |-> wfName, EventName |-> evName]

NoRequest == Request(<<>>, "", "", "")

\* runtimev1pb.StartWorkflowRequest
StartRequests ==
    {Request(id, comp, n, "") : id \in InstanceIds, comp \in ComponentNames, n \in {"", "order"}}
\* runtimev1pb.RaiseEventWorkflowRequest
RaiseEventRequests ==
    {Request(id, comp, "", n) : id \in InstanceIds, comp \in ComponentNames, n \in {"", "paid"}}
\* runtimev1pb.{Get,Terminate,Pause,Resume,Purge}WorkflowRequest
InstanceRequests ==
    {Request(id, comp, "", "") : id \in InstanceIds, comp \in ComponentNames}

\* the request handed to the engine component (workflows.XxxRequest)
EngineRequest(method, comp, id, wfName, evName) ==
    [method |-> method, component |-> comp, InstanceID |-> id,
     WorkflowName |-> wfName, EventName |-> evName]

NoEngineRequest == EngineRequest("", "", <<>>, "", "")

\* workflows.WorkflowState; times are nanoseconds since the epoch
WorkflowState(id, name, created, updated, status, props) ==
    [InstanceID |-> id, WorkflowName |-> name, CreatedAt |-> created,
     LastUpdatedAt |-> updated, RuntimeStatus |-> status, Properties |-> props]

NoState == WorkflowState(<<>>, "", 0, 0, "", {})

\* what one engine call returns: an error chain and the returned value
Outcome(err, state) == [err |-> err, state |-> state]

NoOutcome == Outcome(<<>>, NoState)

Failures == {Outcome(e, NoState) : e \in EngineErrors \ {<<>>}}

\* results of workflowComponent.Get
GetOutcomes(req) ==
    Failures \cup
    {Outcome(<<>>, WorkflowState(req.InstanceID, "order", 1500000000, 2000000001,
                                 "RUNNING", {<<"dapr.workflow.custom_status", "ok">>}))}

\* results of workflowComponent.Start: the engine reports the instance id
StartOutcomes(req) ==
    Failures \cup
    {Outcome(<<>>, WorkflowState(id, "", 0, 0, "", {})) : id \in {req.InstanceID, <<101>>}}

\* results of the engine methods that return only an error
ErrorOnlyOutcomes == Failures \cup {NoOutcome}

\* timestamppb.New: seconds and nanoseconds
timestamppbNew(t) == <<t \div 1000000000, t % 1000000000>>

Response(type, id, name, created, updated, status, props) ==
    [type |-> type, InstanceId |-> id, WorkflowName |-> name, CreatedAt |-> created,
     LastUpdatedAt |-> updated, RuntimeStatus |-> status, Properties |-> props]

\* &runtimev1pb.GetWorkflowResponse{}, &runtimev1pb.StartWorkflowResponse{}, &emptypb.Empty{}
ZeroResponse(type) == Response(type, <<>>, "", <<>>, <<>>, "", {})
emptyResponse == ZeroResponse("Empty")
NoResponse == ZeroResponse("")

(***************************************************************************)
(* getWorkflowComponent                                                    *)
(***************************************************************************)
\* getWorkflowComponent without the check for an empty name
getWorkflowComponent_noEmptyCheck(componentName) ==
    IF componentName \notin registry
    THEN [comp |-> "",
          err |-> APIError("ErrWorkflowComponentDoesNotExist", <<>>, componentName, 0, <<>>)]
    ELSE [comp |-> componentName, err |-> nil]

getWorkflowComponent(componentName) ==
    IF componentName = ""
    THEN [comp |-> "", err |-> APIError("ErrNoOrMissingWorkflowComponent", <<>>, "", 0, <<>>)]
    ELSE IF componentName \notin registry
    THEN [comp |-> "",
          err |-> APIError("ErrWorkflowComponentDoesNotExist", <<>>, componentName, 0, <<>>)]
    ELSE [comp |-> componentName, err |-> nil]

(***************************************************************************)
(* Invocations                                                             *)
(***************************************************************************)
Idle ==
    [pc |-> "idle", op |-> "", in |-> NoRequest, trace |-> <<>>,
     req |-> NoEngineRequest, out |-> NoOutcome, resp |-> NoResponse, err |-> nil]

\* the handler op is entered with request in and calls validateInstanceID
Entered(op, in) ==
    [Idle EXCEPT !.pc = "run", !.op = op, !.in = in, !.trace = <<"validateInstanceID">>]

\* return resp, err
Returned(c, resp, err) == [c EXCEPT !.pc = "done", !.resp = resp, !.err = err]

\* a.WaitForActorsReady(ctx) is reached and blocks
Waiting(c) == [c EXCEPT !.pc = "wait"]

\* a.WaitForActorsReady(ctx) has returned and getWorkflowComponent is called
Resolving(c) == [c EXCEPT !.trace = @ \o <<"WaitForActorsReady", "getWorkflowComponent">>]

\* the engine method of req is called
Calling(c, req) ==
    [c EXCEPT !.pc = "call", !.req = req, !.trace = @ \o <<req.method>>]

\* the engine call has returned out
Called(c, out) == [c EXCEPT !.out = out]

Others == <<registry, actorsReady, vin, vout>>

(***************************************************************************)
(* The handlers.  A handler runs atomically up to a.WaitForActorsReady,    *)
(* from the gate to the engine call, and from the engine's answer to its   *)
(* return: the three places where other invocations can interleave.        *)
(***************************************************************************)
\* ---- GetWorkflowBeta1 ----
GetWorkflowBeta1_begin(p, in) ==
    /\ LET c == Entered("GetWorkflowBeta1", in)
           err == validateInstanceID(in.InstanceId, FALSE)
       IN  IF err # nil
           THEN calls' = [calls EXCEPT ![p] = Returned(c, ZeroResponse("GetWorkflowResponse"), err)]
           ELSE calls' = [calls EXCEPT ![p] = Waiting(c)]
    /\ UNCHANGED Others

\* GetWorkflowBeta1 going on without a.WaitForActorsReady
GetWorkflowBeta1_resolve_noWait(p) ==
    /\ calls[p].pc = "wait"
    /\ calls[p].op = "GetWorkflowBeta1"
    /\ LET in == calls[p].in
           c == [calls[p] EXCEPT !.trace = @ \o <<"getWorkflowComponent">>]
           r == getWorkflowComponent(in.WorkflowComponent)
       IN  IF r.err # nil
           THEN calls' = [calls EXCEPT ![p] = Returned(c, ZeroResponse("GetWorkflowResponse"), r.err)]
           ELSE calls' = [calls EXCEPT ![p] =
                             Calling(c, EngineRequest("Get", r.comp, in.InstanceId, "", ""))]
    /\ UNCHANGED <<entry, Others>>

GetWorkflowBeta1_resolve(p) ==
    /\ calls[p].pc = "wait"
    /\ calls[p].op = "GetWorkflowBeta1"
    /\ actorsReady
    /\ LET in == calls[p].in
           c == Resolving(calls[p])
           r == getWorkflowComponent(in.WorkflowComponent)
       IN  IF r.err # nil
           THEN calls' = [calls EXCEPT ![p] = Returned(c, ZeroResponse("GetWorkflowResponse"), r.err)]
           ELSE calls' = [calls EXCEPT ![p] =
                             Calling(c, EngineRequest("Get", r.comp, in.InstanceId, "", ""))]
    /\ UNCHANGED <<entry, Others>>

GetWorkflowBeta1_result(p) ==
    /\ calls[p].pc = "call"
    /\ calls[p].op = "GetWorkflowBeta1"
    /\ \E out \in GetOutcomes(calls[p].req) :
          LET in == calls[p].in
              c == Called(calls[p], out)
          IN  IF out.err # <<>>
              THEN IF errorsIs(out.err, ErrInstanceNotFound)
                   THEN calls' = [calls EXCEPT ![p] = Returned(c, ZeroResponse("GetWorkflowResponse"),
                                     APIError("ErrWorkflowInstanceNotFound", in.InstanceId, "", 0, out.err))]
                   ELSE calls' = [calls EXCEPT ![p] = Returned(c, ZeroResponse("GetWorkflowResponse"),
                                     APIError("ErrWorkflowGetResponse", in.InstanceId, "", 0, out.err))]
              ELSE calls' = [calls EXCEPT ![p] = Returned(c, Response("GetWorkflowResponse",
                                     out.state.InstanceID, out.state.WorkflowName,
                                     timestamppbNew(out.state.CreatedAt),
                                     timestamppbNew(out.state.LastUpdatedAt),
                                     out.state.RuntimeStatus, out.state.Properties), nil)]
    /\ UNCHANGED <<entry, Others>>

GetWorkflowBeta1(p) ==
    \/ /\ calls[p].pc = "idle"
       /\ \E in \in InstanceRequests : GetWorkflowBeta1_begin(p, in)
       /\ entry' = [entry EXCEPT ![p] = "GetWorkflowBeta1"]
    \/ GetWorkflowBeta1_resolve(p)
    \/ GetWorkflowBeta1_result(p)

\* ---- StartWorkflowBeta1 ----
StartWorkflowBeta1_begin(p, in) ==
    /\ LET c == Entered("StartWorkflowBeta1", in)
           err == validateInstanceID(in.InstanceId, TRUE)
       IN  IF err # nil
           THEN calls' = [calls EXCEPT ![p] = Returned(c, ZeroResponse("StartWorkflowResponse"), err)]
           ELSE IF in.WorkflowName = ""
           THEN calls' = [calls EXCEPT ![p] =
                             Returned(c, ZeroResponse("StartWorkflowResponse"), APIError("ErrWorkflowNameMissing", <<>>, "", 0, <<>>))]
           ELSE calls' = [calls EXCEPT ![p] = Waiting(c)]
    /\ UNCHANGED Others

StartWorkflowBeta1_resolve(p) ==
    /\ calls[p].pc = "wait"
    /\ calls[p].op = "StartWorkflowBeta1"
    /\ actorsReady
    /\ LET in == calls[p].in
           c == Resolving(calls[p])
           r == getWorkflowComponent(in.WorkflowComponent)
       IN  IF r.err # nil
           THEN calls' = [calls EXCEPT ![p] = Returned(c, ZeroResponse("StartWorkflowResponse"), r.err)]
           ELSE calls' = [calls EXCEPT ![p] =
                             Calling(c, EngineRequest("Start", r.comp, in.InstanceId, in.WorkflowName, ""))]
    /\ UNCHANGED <<entry, Others>>

StartWorkflowBeta1_result(p) ==
    /\ calls[p].pc = "call"
    /\ calls[p].op = "StartWorkflowBeta1"
    /\ \E out \in StartOutcomes(calls[p].req) :
          LET in == calls[p].in
              c == Called(calls[p], out)
          IN  IF out.err # <<>>
              THEN calls' = [calls EXCEPT ![p] = Returned(c, ZeroResponse("StartWorkflowResponse"),
                                APIError("ErrStartWorkflow", <<>>, in.WorkflowName, 0, out.err))]
              ELSE calls' = [calls EXCEPT ![p] = Returned(c, Response("StartWorkflowResponse",
                                     out.state.InstanceID, "", <<>>, <<>>, "", {}), nil)]
    /\ UNCHANGED <<entry, Others>>

StartWorkflowBeta1(p) ==
    \/ /\ calls[p].pc = "idle"
       /\ \E in \in StartRequests : StartWorkflowBeta1_begin(p, in)
       /\ entry' = [entry EXCEPT ![p] = "StartWorkflowBeta1"]
    \/ StartWorkflowBeta1_resolve(p)
    \/ StartWorkflowBeta1_result(p)

\* ---- TerminateWorkflowBeta1 ----
TerminateWorkflowBeta1_begin(p, in) ==
    /\ LET c == Entered("TerminateWorkflowBeta1", in)
           err == validateInstanceID(in.InstanceId, FALSE)
       IN  IF err # nil
           THEN calls' = [calls EXCEPT ![p] = Returned(c, emptyResponse, err)]
           ELSE calls' = [calls EXCEPT ![p] = Waiting(c)]
    /\ UNCHANGED Others

TerminateWorkflowBeta1_resolve(p) ==
    /\ calls[p].pc = "wait"
    /\ calls[p].op = "TerminateWorkflowBeta1"
    /\ actorsReady
    /\ LET in == calls[p].in
           c == Resolving(calls[p])
           r == getWorkflowComponent(in.WorkflowComponent)
       IN  IF r.err # nil
           THEN calls' = [calls EXCEPT ![p] = Returned(c, emptyResponse, r.err)]
           ELSE calls' = [calls EXCEPT ![p] =
                             Calling(c, EngineRequest("Terminate", r.comp, in.InstanceId, "", ""))]
    /\ UNCHANGED <<entry, Others>>

\* TerminateWorkflowBeta1 without the errors.Is(err, api.ErrInstanceNotFound) branch
TerminateWorkflowBeta1_result_noNotFound(p) ==
    /\ calls[p].pc = "call"
    /\ calls[p].op = "TerminateWorkflowBeta1"
    /\ \E out \in ErrorOnlyOutcomes :
          LET in == calls[p].in
              c == Called(calls[p], out)
          IN  IF out.err # <<>>
              THEN calls' = [calls EXCEPT ![p] = Returned(c, emptyResponse,
                                APIError("ErrTerminateWorkflow", in.InstanceId, "", 0, out.err))]
              ELSE calls' = [calls EXCEPT ![p] = Returned(c, emptyResponse, nil)]
    /\ UNCHANGED <<entry, Others>>

TerminateWorkflowBeta1_result(p) ==
    /\ calls[p].pc = "call"
    /\ calls[p].op = "TerminateWorkflowBeta1"
    /\ \E out \in ErrorOnlyOutcomes :
          LET in == calls[p].in
              c == Called(calls[p], out)
          IN  IF out.err # <<>>
              THEN IF errorsIs(out.err, ErrInstanceNotFound)
                   THEN calls' = [calls EXCEPT ![p] = Returned(c, emptyResponse,
                                     APIError("ErrWorkflowInstanceNotFound", in.InstanceId, "", 0, out.err))]
                   ELSE calls' = [calls EXCEPT ![p] = Returned(c, emptyResponse,
                                     APIError("ErrTerminateWorkflow", in.InstanceId, "", 0, out.err))]
              ELSE calls' = [calls EXCEPT ![p] = Returned(c, emptyResponse, nil)]
    /\ UNCHANGED <<entry, Others>>

TerminateWorkflowBeta1(p) ==
    \/ /\ calls[p].pc = "idle"
       /\ \E in \in InstanceRequests : TerminateWorkflowBeta1_begin(p, in)
       /\ entry' = [entry EXCEPT ![p] = "TerminateWorkflowBeta1"]
    \/ TerminateWorkflowBeta1_resolve(p)
    \/ TerminateWorkflowBeta1_result(p)

\* ---- RaiseEventWorkflowBeta1 ----
\* RaiseEventWorkflowBeta1 without the check of in.EventName
RaiseEventWorkflowBeta1_begin_noNameCheck(p, in) ==
    /\ LET c == Entered("RaiseEventWorkflowBeta1", in)
           err == validateInstanceID(in.InstanceId, FALSE)
       IN  IF err # nil
           THEN calls' = [calls EXCEPT ![p] = Returned(c, emptyResponse, err)]
           ELSE calls' = [calls EXCEPT ![p] = Waiting(c)]
    /\ UNCHANGED Others

RaiseEventWorkflowBeta1_begin(p, in) ==
    /\ LET c == Entered("RaiseEventWorkflowBeta1", in)
           err == validateInstanceID(in.InstanceId, FALSE)
       IN  IF err # nil
           THEN calls' = [calls EXCEPT ![p] = Returned(c, emptyResponse, err)]
           ELSE IF in.EventName = ""
           THEN calls' = [calls EXCEPT ![p] =
                             Returned(c, emptyResponse, APIError("ErrMissingWorkflowEventName", <<>>, "", 0, <<>>))]
           ELSE calls' = [calls EXCEPT ![p] = Waiting(c)]
    /\ UNCHANGED Others

RaiseEventWorkflowBeta1_resolve(p) ==
    /\ calls[p].pc = "wait"
    /\ calls[p].op = "RaiseEventWorkflowBeta1"
    /\ actorsReady
    /\ LET in == calls[p].in
           c == Resolving(calls[p])
           r == getWorkflowComponent(in.WorkflowComponent)
       IN  IF r.err # nil
           THEN calls' = [calls EXCEPT ![p] = Returned(c, emptyResponse, r.err)]
           ELSE calls' = [calls EXCEPT ![p] =
                             Calling(c, EngineRequest("RaiseEvent", r.comp, in.InstanceId, "", in.EventName))]
    /\ UNCHANGED <<entry, Others>>

RaiseEventWorkflowBeta1_result(p) ==
    /\ calls[p].pc = "call"
    /\ calls[p].op = "RaiseEventWorkflowBeta1"
    /\ \E out \in ErrorOnlyOutcomes :
          LET in == calls[p].in
              c == Called(calls[p], out)
          IN  IF out.err # <<>>
              THEN calls' = [calls EXCEPT ![p] = Returned(c, emptyResponse,
                                APIError("ErrRaiseEventWorkflow", in.InstanceId, "", 0, out.err))]
              ELSE calls' = [calls EXCEPT ![p] = Returned(c, emptyResponse, nil)]
    /\ UNCHANGED <<entry, Others>>

RaiseEventWorkflowBeta1(p) ==
    \/ /\ calls[p].pc = "idle"
       /\ \E in \in RaiseEventRequests : RaiseEventWorkflowBeta1_begin(p, in)
       /\ entry' = [entry EXCEPT ![p] = "RaiseEventWorkflowBeta1"]
    \/ RaiseEventWorkflowBeta1_resolve(p)
    \/ RaiseEventWorkflowBeta1_result(p)

\* ---- PauseWorkflowBeta1 ----
PauseWorkflowBeta1_begin(p, in) ==
    /\ LET c == Entered("PauseWorkflowBeta1", in)
           err == validateInstanceID(in.InstanceId, FALSE)
       IN  IF err # nil
           THEN calls' = [calls EXCEPT ![p] = Returned(c, emptyResponse, err)]
           ELSE calls' = [calls EXCEPT ![p] = Waiting(c)]
    /\ UNCHANGED Others

PauseWorkflowBeta1_resolve(p) ==
    /\ calls[p].pc = "wait"
    /\ calls[p].op = "PauseWorkflowBeta1"
    /\ actorsReady
    /\ LET in == calls[p].in
           c == Resolving(calls[p])
           r == getWorkflowComponent(in.WorkflowComponent)
       IN  IF r.err # nil
           THEN calls' = [calls EXCEPT ![p] = Returned(c, emptyResponse, r.err)]
           ELSE calls' = [calls EXCEPT ![p] =
                             Calling(c, EngineRequest("Pause", r.comp, in.InstanceId, "", ""))]
    /\ UNCHANGED <<entry, Others>>

\* PauseWorkflowBeta1 logging the engine's error and returning nil
PauseWorkflowBeta1_result_swallow(p) ==
    /\ calls[p].pc = "call"
    /\ calls[p].op = "PauseWorkflowBeta1"
    /\ \E out \in ErrorOnlyOutcomes :
          calls' = [calls EXCEPT ![p] = Returned(Called(calls[p], out), emptyResponse, nil)]
    /\ UNCHANGED <<entry, Others>>

PauseWorkflowBeta1_result(p) ==
    /\ calls[p].pc = "call"
    /\ calls[p].op = "PauseWorkflowBeta1"
    /\ \E out \in ErrorOnlyOutcomes :
          LET in == calls[p].in
              c == Called(calls[p], out)
          IN  IF out.err # <<>>
              THEN calls' = [calls EXCEPT ![p] = Returned(c, emptyResponse,
                                APIError("ErrPauseWorkflow", in.InstanceId, "", 0, out.err))]
              ELSE calls' = [calls EXCEPT ![p] = Returned(c, emptyResponse, nil)]
    /\ UNCHANGED <<entry, Others>>

PauseWorkflowBeta1(p) ==
    \/ /\ calls[p].pc = "idle"
       /\ \E in \in InstanceRequests : PauseWorkflowBeta1_begin(p, in)
       /\ entry' = [entry EXCEPT ![p] = "PauseWorkflowBeta1"]
    \/ PauseWorkflowBeta1_resolve(p)
    \/ PauseWorkflowBeta1_result(p)

\* ---- ResumeWorkflowBeta1 ----
ResumeWorkflowBeta1_begin(p, in) ==
    /\ LET c == Entered("ResumeWorkflowBeta1", in)
           err == validateInstanceID(in.InstanceId, FALSE)
       IN  IF err # nil
           THEN calls' = [calls EXCEPT ![p] = Returned(c, emptyResponse, err)]
           ELSE calls' = [calls EXCEPT ![p] = Waiting(c)]
    /\ UNCHANGED Others

ResumeWorkflowBeta1_resolve(p) ==
    /\ calls[p].pc = "wait"
    /\ calls[p].op = "ResumeWorkflowBeta1"
    /\ actorsReady
    /\ LET in == calls[p].in
           c == Resolving(calls[p])
           r == getWorkflowComponent(in.WorkflowComponent)
       IN  IF r.err # nil
           THEN calls' = [calls EXCEPT ![p] = Returned(c, emptyResponse, r.err)]
           ELSE calls' = [calls EXCEPT ![p] =
                             Calling(c, EngineRequest("Resume", r.comp, in.InstanceId, "", ""))]
    /\ UNCHANGED <<entry, Others>>

ResumeWorkflowBeta1_result(p) ==
    /\ calls[p].pc = "call"
    /\ calls[p].op = "ResumeWorkflowBeta1"
    /\ \E out \in ErrorOnlyOutcomes :
          LET in == calls[p].in
              c == Called(calls[p], out)
          IN  IF out.err # <<>>
              THEN calls' = [calls EXCEPT ![p] = Returned(c, emptyResponse,
                                APIError("ErrResumeWorkflow", in.InstanceId, "", 0, out.err))]
              ELSE calls' = [calls EXCEPT ![p] = Returned(c, emptyResponse, nil)]
    /\ UNCHANGED <<entry, Others>>

ResumeWorkflowBeta1(p) ==
    \/ /\ calls[p].pc = "idle"
       /\ \E in \in InstanceRequests : ResumeWorkflowBeta1_begin(p, in)
       /\ entry' = [entry EXCEPT ![p] = "ResumeWorkflowBeta1"]
    \/ ResumeWorkflowBeta1_resolve(p)
    \/ ResumeWorkflowBeta1_result(p)

\* ---- PurgeWorkflowBeta1 ----
PurgeWorkflowBeta1_begin(p, in) ==
    /\ LET c == Entered("PurgeWorkflowBeta1", in)
           err == validateInstanceID(in.InstanceId, FALSE)
       IN  IF err # nil
           THEN calls' = [calls EXCEPT ![p] = Returned(c, emptyResponse, err)]
           ELSE calls' = [calls EXCEPT ![p] = Waiting(c)]
    /\ UNCHANGED Others

PurgeWorkflowBeta1_resolve(p) ==
    /\ calls[p].pc = "wait"
    /\ calls[p].op = "PurgeWorkflowBeta1"
    /\ actorsReady
    /\ LET in == calls[p].in
           c == Resolving(calls[p])
           r == getWorkflowComponent(in.WorkflowComponent)
       IN  IF r.err # nil
           THEN calls' = [calls EXCEPT ![p] = Returned(c, emptyResponse, r.err)]
           ELSE calls' = [calls EXCEPT ![p] =
                             Calling(c, EngineRequest("Purge", r.comp, in.InstanceId, "", ""))]
    /\ UNCHANGED <<entry, Others>>

PurgeWorkflowBeta1_result(p) ==
    /\ calls[p].pc = "call"
    /\ calls[p].op = "PurgeWorkflowBeta1"
    /\ \E out \in ErrorOnlyOutcomes :
          LET in == calls[p].in
              c == Called(calls[p], out)
          IN  IF out.err # <<>>
              THEN IF errorsIs(out.err, ErrInstanceNotFound)
                   THEN calls' = [calls EXCEPT ![p] = Returned(c, emptyResponse,
                                     APIError("ErrWorkflowInstanceNotFound", in.InstanceId, "", 0, out.err))]
                   ELSE calls' = [calls EXCEPT ![p] = Returned(c, emptyResponse,
                                     APIError("ErrPurgeWorkflow", in.InstanceId, "", 0, out.err))]
              ELSE calls' = [calls EXCEPT ![p] = Returned(c, emptyResponse, nil)]
    /\ UNCHANGED <<entry, Others>>

PurgeWorkflowBeta1(p) ==
    \/ /\ calls[p].pc = "idle"
       /\ \E in \in InstanceRequests : PurgeWorkflowBeta1_begin(p, in)
       /\ entry' = [entry EXCEPT ![p] = "PurgeWorkflowBeta1"]
    \/ PurgeWorkflowBeta1_resolve(p)
    \/ PurgeWorkflowBeta1_result(p)

\* ---- the Alpha1 handlers ----
\* return a.GetWorkflowBeta1(ctx, in)
GetWorkflowAlpha1(p) ==
    /\ calls[p].pc = "idle"
    /\ \E in \in InstanceRequests : GetWorkflowBeta1_begin(p, in)
    /\ entry' = [entry EXCEPT ![p] = "GetWorkflowAlpha1"]

\* return a.StartWorkflowBeta1(ctx, in)
StartWorkflowAlpha1(p) ==
    /\ calls[p].pc = "idle"
    /\ \E in \in StartRequests : StartWorkflowBeta1_begin(p, in)
    /\ entry' = [entry EXCEPT ![p] = "StartWorkflowAlpha1"]

\* return a.TerminateWorkflowBeta1(ctx, in)
TerminateWorkflowAlpha1(p) ==
    /\ calls[p].pc = "idle"
    /\ \E in \in InstanceRequests : TerminateWorkflowBeta1_begin(p, in)
    /\ entry' = [entry EXCEPT ![p] = "TerminateWorkflowAlpha1"]

\* return a.RaiseEventWorkflowBeta1(ctx, in)
RaiseEventWorkflowAlpha1(p) ==
    /\ calls[p].pc = "idle"
    /\ \E in \in RaiseEventRequests : RaiseEventWorkflowBeta1_begin(p, in)
    /\ entry' = [entry EXCEPT ![p] = "RaiseEventWorkflowAlpha1"]

\* PauseWorkflowAlpha1 returning a.ResumeWorkflowBeta1(ctx, in)
PauseWorkflowAlpha1_resume(p) ==
    /\ calls[p].pc = "idle"
    /\ \E in \in InstanceRequests : ResumeWorkflowBeta1_begin(p, in)
    /\ entry' = [entry EXCEPT ![p] = "PauseWorkflowAlpha1"]

\* return a.PauseWorkflowBeta1(ctx, in)
PauseWorkflowAlpha1(p) ==
    /\ calls[p].pc = "idle"
    /\ \E in \in InstanceRequests : PauseWorkflowBeta1_begin(p, in)
    /\ entry' = [entry EXCEPT ![p] = "PauseWorkflowAlpha1"]

\* return a.ResumeWorkflowBeta1(ctx, in)
ResumeWorkflowAlpha1(p) ==
    /\ calls[p].pc = "idle"
    /\ \E in \in InstanceRequests : ResumeWorkflowBeta1_begin(p, in)
    /\ entry' = [entry EXCEPT ![p] = "ResumeWorkflowAlpha1"]

\* return a.PurgeWorkflowBeta1(ctx, in)
PurgeWorkflowAlpha1(p) ==
    /\ calls[p].pc = "idle"
    /\ \E in \in InstanceRequests : PurgeWorkflowBeta1_begin(p, in)
    /\ entry' = [entry EXCEPT ![p] = "PurgeWorkflowAlpha1"]

\* the actor subsystem becomes ready: from then on a.WaitForActorsReady returns
ActorsBecomeReady ==
    /\ ~actorsReady
    /\ actorsReady' = TRUE
    /\ UNCHANGED <<registry, calls, entry, vin, vout>>

(***************************************************************************)
(* A direct call of validateInstanceID                                     *)
(***************************************************************************)
NotValidated == [called |-> FALSE, err |-> nil]

ValidateCreate ==
    /\ ~vout.called
    /\ vin.isCreate
    /\ vout' = [called |-> TRUE, err |-> validateInstanceID(vin.instanceID, TRUE)]
    /\ UNCHANGED <<registry, actorsReady, calls, entry, vin>>

ValidateLookup ==
    /\ ~vout.called
    /\ ~vin.isCreate
    /\ vout' = [called |-> TRUE, err |-> validateInstanceID(vin.instanceID, FALSE)]
    /\ UNCHANGED <<registry, actorsReady, calls, entry, vin>>

(***************************************************************************)
(* Specifications                                                          *)
(***************************************************************************)
Init ==
    /\ registry = {"redis"}
    /\ actorsReady = FALSE
    /\ calls = [p \in Procs |-> Idle]
    /\ entry = [p \in Procs |-> ""]
    /\ vin = [instanceID |-> <<>>, isCreate |-> FALSE]
    /\ vout = NotValidated

Step(p) ==
    \/ GetWorkflowBeta1(p)
    \/ StartWorkflowBeta1(p)
    \/ TerminateWorkflowBeta1(p)
    \/ RaiseEventWorkflowBeta1(p)
    \/ PauseWorkflowBeta1(p)
    \/ ResumeWorkflowBeta1(p)
    \/ PurgeWorkflowBeta1(p)
    \/ GetWorkflowAlpha1(p)
    \/ StartWorkflowAlpha1(p)
    \/ TerminateWorkflowAlpha1(p)
    \/ RaiseEventWorkflowAlpha1(p)
    \/ PauseWorkflowAlpha1(p)
    \/ ResumeWorkflowAlpha1(p)
    \/ PurgeWorkflowAlpha1(p)

Next ==
    \/ \E p \in Procs : Step(p)
    \/ ActorsBecomeReady

Spec == Init /\ [][Next]_vars

\* an invocation that was entered goes on: its goroutine is scheduled, and the
\* engine answers the call
Proceed(p) ==
    \/ GetWorkflowBeta1_resolve(p) \/ GetWorkflowBeta1_result(p)
    \/ StartWorkflowBeta1_resolve(p) \/ StartWorkflowBeta1_result(p)
    \/ TerminateWorkflowBeta1_resolve(p) \/ TerminateWorkflowBeta1_result(p)
    \/ RaiseEventWorkflowBeta1_resolve(p) \/ RaiseEventWorkflowBeta1_result(p)
    \/ PauseWorkflowBeta1_resolve(p) \/ PauseWorkflowBeta1_result(p)
    \/ ResumeWorkflowBeta1_resolve(p) \/ ResumeWorkflowBeta1_result(p)
    \/ PurgeWorkflowBeta1_resolve(p) \/ PurgeWorkflowBeta1_result(p)

\* the handlers under a fair scheduler, with a gate that opens and an engine that answers
FairSpec ==
    /\ Spec
    /\ WF_vars(ActorsBecomeReady)
    /\ \A p \in Procs : WF_vars(Proceed(p))

ValidateInit ==
    /\ registry = {"redis"}
    /\ actorsReady = FALSE
    /\ calls = [p \in Procs |-> Idle]
    /\ entry = [p \in Procs |-> ""]
    /\ vin \in [instanceID : RunIds(MaxRuns), isCreate : BOOLEAN]
    /\ vout = NotValidated

ValidateNext == ValidateCreate \/ ValidateLookup

ValidateSpec == ValidateInit /\ [][ValidateNext]_vars

(***************************************************************************)
(* Vocabulary of the properties                                            *)
(***************************************************************************)
\* the characters an instance id may hold on the create path
AllowedChar(c) == IsLetter(c) \/ IsDigit(c) \/ c = 45 \/ c = 95

\* number of characters of an id
CharLen(s) == Len(s)

AllAllowed(s) == \A i \in 1..Len(s) : AllowedChar(s[i])

\* the engine's "instance not found" condition, possibly wrapped
IsNotFound(e) == \E i \in 1..Len(e) : e[i] = "api.ErrInstanceNotFound"

Operations == {"Get", "Start", "Terminate", "RaiseEvent", "Pause", "Resume", "Purge"}

\* the operation a handler serves, which is also the engine method it must call
OperationOf(op) ==
    CASE op = "GetWorkflowBeta1" -> "Get"
      [] op = "StartWorkflowBeta1" -> "Start"
      [] op = "TerminateWorkflowBeta1" -> "Terminate"
      [] op = "RaiseEventWorkflowBeta1" -> "RaiseEvent"
      [] op = "PauseWorkflowBeta1" -> "Pause"
      [] op = "ResumeWorkflowBeta1" -> "Resume"
      [] op = "PurgeWorkflowBeta1" -> "Purge"
      [] OTHER -> ""

\* the OperationFailed error of each operation
OperationFailed(o) ==
    CASE o = "Get" -> "ErrWorkflowGetResponse"
      [] o = "Start" -> "ErrStartWorkflow"
      [] o = "Terminate" -> "ErrTerminateWorkflow"
      [] o = "RaiseEvent" -> "ErrRaiseEventWorkflow"
      [] o = "Pause" -> "ErrPauseWorkflow"
      [] o = "Resume" -> "ErrResumeWorkflow"
      [] o = "Purge" -> "ErrPurgeWorkflow"
      [] OTHER -> ""

\* the zero-value response of each operation
ZeroOf(o) ==
    CASE o = "Get" -> ZeroResponse("GetWorkflowResponse")
      [] o = "Start" -> ZeroResponse("StartWorkflowResponse")
      [] OTHER -> emptyResponse

Done(p) == calls[p].pc = "done"
Op(p) == OperationOf(calls[p].op)

\* the local checks made before the readiness gate
RequiredNameMissing(p) ==
    \/ Op(p) = "Start" /\ calls[p].in.WorkflowName = ""
    \/ Op(p) = "RaiseEvent" /\ calls[p].in.EventName = ""
IdError(p) == validateInstanceID(calls[p].in.InstanceId, Op(p) = "Start")
ValidationFails(p) == IdError(p) # nil \/ RequiredNameMissing(p)
Resolves(p) ==
    calls[p].in.WorkflowComponent # "" /\ calls[p].in.WorkflowComponent \in registry

\* the engine calls an invocation has made
EngineCalls(p) == SelectSeq(calls[p].trace, LAMBDA e : e \in Operations)
EngineFailed(p) == Done(p) /\ EngineCalls(p) # <<>> /\ calls[p].out.err # <<>>

(***************************************************************************)
(* C1. Create-mode validation accepts every non-empty id of at most 64     *)
(* characters made of letters, digits, '-' and '_', multi-byte letters and *)
(* digits included.                                                        *)
(***************************************************************************)
C1_CreateAccepts ==
    (vout.called /\ vin.isCreate /\ vin.instanceID # <<>>
       /\ CharLen(vin.instanceID) <= maxInstanceIDLength
       /\ AllAllowed(vin.instanceID))
    => vout.err = nil

(***************************************************************************)
(* C2. In create mode every id longer than 64 characters is rejected with  *)
(* IdentifierTooLong carrying the limit 64, whatever its characters, and   *)
(* every id of at most 64 characters holding a disallowed character is     *)
(* rejected with InvalidIdentifier.                                        *)
(***************************************************************************)
C2_CreateErrors ==
    (vout.called /\ vin.isCreate) =>
        /\ CharLen(vin.instanceID) > maxInstanceIDLength
              => (vout.err.name = "ErrInstanceIDTooLong" /\ vout.err.limit = 64)
        /\ (CharLen(vin.instanceID) <= maxInstanceIDLength /\ ~AllAllowed(vin.instanceID))
              => vout.err.name = "ErrInvalidInstanceID"

(***************************************************************************)
(* C3. Non-create validation fails exactly for the empty id, with          *)
(* MissingIdentifier; the empty id gives MissingIdentifier in create mode  *)
(* too.                                                                    *)
(***************************************************************************)
C3_LookupAcceptsNonEmpty ==
    vout.called =>
        /\ ~vin.isCreate => (vout.err # nil <=> vin.instanceID = <<>>)
        /\ vin.instanceID = <<>> => vout.err.name = "ErrMissingOrEmptyInstance"

\* an id that is too long and malformed for Start passes non-create validation
C3_Witness ==
    /\ vout.called /\ ~vin.isCreate /\ vout.err = nil
    /\ CharLen(vin.instanceID) > maxInstanceIDLength
    /\ ~AllAllowed(vin.instanceID)
    /\ validateInstanceID(vin.instanceID, TRUE) # nil

(***************************************************************************)
(* C4. An engine failure that is "instance not found" is returned as       *)
(* InstanceNotFound with the request's instance id by Get, Terminate and   *)
(* Purge, and as the operation's OperationFailed by Start, RaiseEvent,     *)
(* Pause and Resume; any other engine failure is OperationFailed for all.  *)
(***************************************************************************)
C4_NotFoundMapping ==
    \A p \in Procs : EngineFailed(p) =>
        IF IsNotFound(calls[p].out.err) /\ Op(p) \in {"Get", "Terminate", "Purge"}
        THEN /\ calls[p].err.name = "ErrWorkflowInstanceNotFound"
             /\ calls[p].err.id = calls[p].in.InstanceId
        ELSE calls[p].err.name = OperationFailed(Op(p))

\* Purge and Pause both met a wrapped "instance not found"
C4_Witness ==
    \E p, q \in Procs :
        /\ EngineFailed(p) /\ Op(p) = "Purge"
        /\ calls[p].out.err = <<"fmt.Errorf(%w)", "api.ErrInstanceNotFound">>
        /\ calls[p].err.name = "ErrWorkflowInstanceNotFound"
        /\ EngineFailed(q) /\ Op(q) = "Pause"
        /\ IsNotFound(calls[q].out.err)
        /\ calls[q].err.name = "ErrPauseWorkflow"

(***************************************************************************)
(* C5. The Alpha1 and the Beta1 handler of an operation, given the same    *)
(* request and the same engine answer, go through the same gate waits and  *)
(* engine calls and return the same response and error.                    *)
(***************************************************************************)
AlphaOf(o) == o \o "WorkflowAlpha1"
BetaOf(o) == o \o "WorkflowBeta1"

SideBySide(p, q) ==
    /\ \E o \in Operations : entry[p] = AlphaOf(o) /\ entry[q] = BetaOf(o)
    /\ calls[p].in = calls[q].in
    /\ calls[p].pc = calls[q].pc
    /\ calls[p].out = calls[q].out

C5_VintagesEquivalent ==
    \A p, q \in Procs : SideBySide(p, q) =>
        /\ calls[p].trace = calls[q].trace
        /\ calls[p].req = calls[q].req
        /\ calls[p].resp = calls[q].resp
        /\ calls[p].err = calls[q].err

\* StartWorkflowAlpha1 and StartWorkflowBeta1 both started the same workflow
C5_Witness ==
    \E p, q \in Procs :
        /\ SideBySide(p, q) /\ Done(p)
        /\ entry[p] = "StartWorkflowAlpha1"
        /\ calls[p].err = nil

(***************************************************************************)
(* C6. An invocation calls the engine at most once, calls the method of    *)
(* its operation, and does so only after validation passed, the gate was   *)
(* awaited and the component resolved.                                     *)
(***************************************************************************)
C6_SingleEngineCall ==
    \A p \in Procs :
        /\ Len(EngineCalls(p)) <= 1
        /\ EngineCalls(p) # <<>> =>
              /\ calls[p].trace = <<"validateInstanceID", "WaitForActorsReady",
                                    "getWorkflowComponent", Op(p)>>
              /\ calls[p].req.method = Op(p)
              /\ calls[p].req.component = calls[p].in.WorkflowComponent
              /\ ~ValidationFails(p)
              /\ Resolves(p)
              /\ actorsReady

\* a Terminate whose engine call failed returned without calling again
C6_Witness ==
    \E p \in Procs :
        /\ EngineFailed(p) /\ Op(p) = "Terminate"
        /\ calls[p].out.err = <<"backend unavailable">>

(***************************************************************************)
(* C7. The error returned is that of the first failing check, in the       *)
(* order: instance id, required workflow or event name, empty component    *)
(* name, unregistered component name.                                      *)
(***************************************************************************)
C7_FirstFailingCheck ==
    \A p \in Procs : Done(p) =>
        IF IdError(p) # nil
        THEN calls[p].err = IdError(p)
        ELSE IF Op(p) = "Start" /\ calls[p].in.WorkflowName = ""
        THEN calls[p].err.name = "ErrWorkflowNameMissing"
        ELSE IF Op(p) = "RaiseEvent" /\ calls[p].in.EventName = ""
        THEN calls[p].err.name = "ErrMissingWorkflowEventName"
        ELSE IF calls[p].in.WorkflowComponent = ""
        THEN calls[p].err.name = "ErrNoOrMissingWorkflowComponent"
        ELSE IF calls[p].in.WorkflowComponent \notin registry
        THEN /\ calls[p].err.name = "ErrWorkflowComponentDoesNotExist"
             /\ calls[p].err.text = calls[p].in.WorkflowComponent
        ELSE calls[p].err.name \notin
                 {"ErrMissingOrEmptyInstance", "ErrInstanceIDTooLong", "ErrInvalidInstanceID",
                  "ErrWorkflowNameMissing", "ErrMissingWorkflowEventName",
                  "ErrNoOrMissingWorkflowComponent", "ErrWorkflowComponentDoesNotExist"}

\* Start without a workflow name and without a component, and a Get of an
\* instance of no component
C7_Witness ==
    \E p, q \in Procs :
        /\ Done(p) /\ Op(p) = "Start" /\ IdError(p) = nil
        /\ calls[p].in.WorkflowName = "" /\ calls[p].in.WorkflowComponent = ""
        /\ calls[p].err.name = "ErrWorkflowNameMissing"
        /\ Done(q) /\ Op(q) = "Get" /\ calls[q].in.WorkflowComponent = ""
        /\ calls[q].err.name = "ErrNoOrMissingWorkflowComponent"

(***************************************************************************)
(* C8. Whenever an engine failure is returned as OperationFailed, the      *)
(* error carries the request's instance id and the engine's error.         *)
(***************************************************************************)
C8_OperationFailedDetail ==
    \A p \in Procs :
        (EngineFailed(p) /\ calls[p].err.name = OperationFailed(Op(p))) =>
            /\ calls[p].err.id = calls[p].in.InstanceId
            /\ calls[p].err.wrapped = calls[p].out.err

(***************************************************************************)
(* C9. An invocation succeeds exactly when validation passed, the          *)
(* component resolved and its engine call returned no error; a failure     *)
(* comes with the zero-value response; Start returns the engine's instance *)
(* id and the operations without payload an empty acknowledgement.         *)
(***************************************************************************)
C9_NoErrorSwallowed ==
    \A p \in Procs : Done(p) =>
        /\ calls[p].err = nil <=>
              (/\ ~ValidationFails(p)
               /\ Resolves(p)
               /\ Len(EngineCalls(p)) = 1
               /\ calls[p].out.err = <<>>)
        /\ calls[p].err # nil => calls[p].resp = ZeroOf(Op(p))
        /\ (calls[p].err = nil /\ Op(p) = "Start") =>
              calls[p].resp = Response("StartWorkflowResponse",
                                       calls[p].out.state.InstanceID, "", <<>>, <<>>, "", {})
        /\ (calls[p].err = nil /\ Op(p) \notin {"Start", "Get"}) =>
              calls[p].resp = emptyResponse

\* Start returned an id the engine assigned, next to a failed Resume
C9_Witness ==
    \E p, q \in Procs :
        /\ Done(p) /\ Op(p) = "Start" /\ calls[p].err = nil
        /\ calls[p].resp.InstanceId = <<101>>
        /\ calls[p].resp.InstanceId # calls[p].in.InstanceId
        /\ EngineFailed(q) /\ Op(q) = "Resume"

(***************************************************************************)
(* C10. A failed validation returns without awaiting the readiness gate; a *)
(* passed validation returns only once the gate wait completed, and does   *)
(* return when the gate opens and the engine answers; invocations leave    *)
(* one another and the registry alone.                                     *)
(***************************************************************************)
Awaited(p) == \E i \in 1..Len(calls[p].trace) : calls[p].trace[i] = "WaitForActorsReady"

GateDiscipline ==
    \A p \in Procs : calls[p].pc # "idle" =>
        IF ValidationFails(p)
        THEN Done(p) /\ ~Awaited(p)
        ELSE (Done(p) \/ calls[p].pc = "call") => (Awaited(p) /\ actorsReady)

Independent ==
    /\ registry' = registry
    /\ \A p, q \in Procs : (p # q /\ calls[p]' # calls[p]) => calls[q]' = calls[q]

C10_Termination ==
    /\ []GateDiscipline
    /\ [][Independent]_vars
    /\ \A p \in Procs : (calls[p].pc # "idle") ~> Done(p)

\* one invocation failed validation and returned while the gate was closed and
\* another one was waiting at it
C10_Witness ==
    \E p, q \in Procs :
        /\ ~actorsReady
        /\ Done(p) /\ ValidationFails(p) /\ calls[p].err # nil
        /\ calls[q].pc = "wait" /\ calls[q].in.WorkflowComponent = "nope"

====
